---- MODULE Spec2Model ----
(***************************************************************************)
(* The per-plan migration engine of forklift-controller                    *)
(* (pkg/controller/plan/migration.go): Run = init, begin, step of every    *)
(* running VM, scheduler.Next + step, end; plus Cancel.                    *)
(***************************************************************************)
EXTENDS Integers, Sequences, FiniteSets, TLC

(***************************************************************************)
(* Bounds of the model.                                                    *)
(***************************************************************************)
\* Number of times a new snapshot (a new execution of the plan) is opened.
MaxSnapshots == 1
\* VM references a plan may list, and the number of disks of each.
Refs == {"a", "b", "c", "d"}
Disks(ref) == IF ref = "b" THEN 2 ELSE IF ref = "d" THEN 0 ELSE 1
\* Size of every disk (progress.total of its task).
DiskSize == 2
\* Latest transition time of a Processing condition.
MaxTime == 4
\* Longest list of data volumes observed on an import, duplicates included.
MaxDvs == 2
\* Longest list of references held by a field of a cluster.
MaxRefs == 1

(***************************************************************************)
(* Program constants.                                                      *)
(***************************************************************************)
NoReQ == 0
PollReQ == 3

HasPreHook == 1
HasPostHook == 2

Started == "Started"
PreHook == "PreHook"
CreateImport == "CreateImport"
ImportCreated == "ImportCreated"
PostHook == "PostHook"
Completed == "Completed"

DiskTransfer == "DiskTransfer"
ImageConversion == "ImageConversion"

\* Condition types.
Executing == "Executing"
Succeeded == "Succeeded"
Failed == "Failed"
Canceled == "Canceled"
Pending == "Pending"
Paused == "Paused"
\* Step/task phases set by updatePipeline.
Running == "Running"
Blocked == "Blocked"

VSphere == "vsphere"
OVirt == "ovirt"

\* The itinerary: ordered entries, each gated by the flags in `all`.
itinerary ==
    << [name |-> Started, all |-> {}],
       [name |-> PreHook, all |-> {HasPreHook}],
       [name |-> CreateImport, all |-> {}],
       [name |-> ImportCreated, all |-> {}],
       [name |-> PostHook, all |-> {HasPostHook}],
       [name |-> Completed, all |-> {}] >>

(***************************************************************************)
(* Sequence helpers.                                                       *)
(***************************************************************************)
Min(S) == CHOOSE x \in S : \A y \in S : x <= y

(***************************************************************************)
(* Timed: the started/completed marks of a VM status, step or task.        *)
(***************************************************************************)
MarkReset(t) == [t EXCEPT !.started = FALSE, !.completed = FALSE]

MarkStarted(t) ==
    IF t.started THEN t ELSE [t EXCEPT !.started = TRUE, !.completed = FALSE]

MarkCompleted(t) == [t EXCEPT !.started = TRUE, !.completed = TRUE]

\* VMStatus.Running(): started and not completed.
IsRunning(t) == t.started /\ ~t.completed

(***************************************************************************)
(* Predicate.Evaluate and the itinerary driver.                            *)
(***************************************************************************)
\* Predicate.Evaluate: no flag holds for a VM without hooks.
Evaluate(hooks, flag) ==
    IF hooks = {} THEN FALSE
    ELSE IF flag = HasPreHook THEN PreHook \in hooks
    ELSE IF flag = HasPostHook THEN PostHook \in hooks
    ELSE FALSE

Allowed(hooks, i) == \A f \in itinerary[i].all : Evaluate(hooks, f)

\* Position of a phase in the itinerary, 0 when it is not an entry.
PhaseIndex(phase) ==
    IF \E i \in DOMAIN itinerary : itinerary[i].name = phase
    THEN CHOOSE i \in DOMAIN itinerary : itinerary[i].name = phase
    ELSE 0

\* itinerary.First(): the first admissible entry.
First(hooks) ==
    itinerary[Min({i \in DOMAIN itinerary : Allowed(hooks, i)})].name

\* A variant of next that goes back from ImportCreated to CreateImport.
nextBackward(hooks, phase) ==
    LET i == PhaseIndex(phase)
        later == {j \in DOMAIN itinerary : j > i /\ Allowed(hooks, j)}
    IN  IF i = 0 \/ later = {} THEN Completed
        ELSE IF phase = ImportCreated THEN CreateImport
        ELSE itinerary[Min(later)].name

\* Migration.next: the next admissible entry; Completed when the
\* itinerary is done or the phase is unknown.
next(hooks, phase) ==
    LET i == PhaseIndex(phase)
        later == {j \in DOMAIN itinerary : j > i /\ Allowed(hooks, j)}
    IN  IF i = 0 \/ later = {} THEN Completed
        ELSE itinerary[Min(later)].name

(***************************************************************************)
(* Pipeline model: tasks, steps, VM status.                                *)
(***************************************************************************)
NewTask(i) ==
    [name |-> i, started |-> FALSE, completed |-> FALSE, phase |-> "",
     done |-> 0, total |-> DiskSize]

NewStep(name, total, tasks) ==
    [name |-> name, started |-> FALSE, completed |-> FALSE, error |-> {},
     phase |-> "", done |-> 0, total |-> total, tasks |-> tasks]

\* builder.Tasks(ref): one task per disk of the VM.
Tasks(ref) == [i \in 1..Disks(ref) |-> NewTask(i)]

RECURSIVE SumTotal(_)
SumTotal(tasks) ==
    IF tasks = <<>> THEN 0 ELSE Head(tasks).total + SumTotal(Tail(tasks))

RECURSIVE SumDone(_)
SumDone(tasks) ==
    IF tasks = <<>> THEN 0 ELSE Head(tasks).done + SumDone(Tail(tasks))

\* The steps buildPipeline appends when its walk is at `phase`.
StepsFor(provider, ref, phase) ==
    IF phase = PreHook THEN << NewStep(PreHook, 1, <<>>) >>
    ELSE IF phase = CreateImport
    THEN << NewStep(DiskTransfer, SumTotal(Tasks(ref)), Tasks(ref)) >>
         \o (IF provider = VSphere
             THEN << NewStep(ImageConversion, 1, <<>>) >>
             ELSE <<>>)
    ELSE IF phase = PostHook THEN << NewStep(PostHook, 1, <<>>) >>
    ELSE <<>>

RECURSIVE WalkItinerary(_, _, _, _)
WalkItinerary(hooks, provider, ref, i) ==
    LET later == {j \in DOMAIN itinerary : j > i /\ Allowed(hooks, j)}
        here == StepsFor(provider, ref, itinerary[i].name)
    IN  IF later = {} THEN here
        ELSE here \o WalkItinerary(hooks, provider, ref, Min(later))

\* Migration.buildPipeline for a plan VM (its hooks and ref).
buildPipeline(hooks, provider, ref) ==
    WalkItinerary(hooks, provider, ref,
                  Min({i \in DOMAIN itinerary : Allowed(hooks, i)}))

\* VMStatus.FindStep: index of the first step of that name, 0 if none.
FindStep(vm, name) ==
    LET hits == {i \in DOMAIN vm.pipeline : vm.pipeline[i].name = name}
    IN  IF hits = {} THEN 0 ELSE Min(hits)

\* Step.ReflectTasks: progress, start and completion from the tasks.
ReflectTasks(step) ==
    IF step.tasks = <<>> THEN step
    ELSE LET nStarted == Cardinality({i \in DOMAIN step.tasks : step.tasks[i].started})
             nCompleted == Cardinality({i \in DOMAIN step.tasks : step.tasks[i].completed})
             s1 == [step EXCEPT !.done = SumDone(step.tasks)]
             s2 == IF nStarted > 0 THEN MarkStarted(s1) ELSE s1
         IN  IF nCompleted = Len(step.tasks) THEN MarkCompleted(s2) ELSE s2

\* VMStatus.ReflectPipeline: errors, start and completion from the steps.
ReflectPipeline(vm) ==
    LET nStarted == Cardinality({i \in DOMAIN vm.pipeline : vm.pipeline[i].started})
        nCompleted == Cardinality({i \in DOMAIN vm.pipeline : vm.pipeline[i].completed})
        errs == UNION {vm.pipeline[i].error : i \in DOMAIN vm.pipeline}
        v1 == [vm EXCEPT !.error = @ \cup errs]
        v2 == IF nStarted > 0 THEN MarkStarted(v1) ELSE v1
    IN  IF nCompleted = Len(vm.pipeline) THEN MarkCompleted(v2) ELSE v2

(***************************************************************************)
(* updatePipeline: derive the pipeline from the observed import.           *)
(*   dv  = [task, boundFalse, running, ready, pct]  (pct in percent)       *)
(*   imp = [dvs, processing, procTrue, succeeded, pct, warm, procTime]     *)
(*   processing and procTime: reason and last transition time of the       *)
(*   Processing condition; warm: imp.Spec.Warm                             *)
(***************************************************************************)
\* int64(pct * float64(total)), pct given in percent.
Scaled(pct, total) == (pct * total) \div 100

\* One iteration of the nextDv loop; acc = [tasks, blocked, completed, running].
ProcessDv(acc, dv) ==
    IF dv.task \notin DOMAIN acc.tasks THEN acc
    ELSE IF dv.boundFalse
    THEN [acc EXCEPT !.tasks[dv.task].phase = Blocked, !.blocked = @ + 1]
    ELSE IF ~dv.running THEN acc
    ELSE LET t0 == acc.tasks[dv.task]
             t1 == [MarkStarted(t0) EXCEPT !.phase = Running,
                                           !.done = Scaled(dv.pct, t0.total)]
             t2 == IF dv.ready
                   THEN MarkCompleted([t1 EXCEPT !.done = t1.total])
                   ELSE t1
         IN  [acc EXCEPT !.tasks[dv.task] = t2,
                         !.running = @ + 1,
                         !.completed = IF dv.ready THEN @ + 1 ELSE @]

RECURSIVE ProcessDvs(_, _)
ProcessDvs(acc, dvs) ==
    IF dvs = <<>> THEN acc
    ELSE ProcessDvs(ProcessDv(acc, Head(dvs)), Tail(dvs))

\* case DiskTransfer of updatePipeline.
UpdateDiskTransfer(step, imp) ==
    LET acc == ProcessDvs([tasks |-> step.tasks, blocked |-> 0,
                           completed |-> 0, running |-> 0], imp.dvs)
        s1 == [step EXCEPT !.tasks = acc.tasks]
    IN  IF acc.completed = Len(step.tasks) THEN [s1 EXCEPT !.phase = Completed]
        ELSE IF acc.blocked > 0 THEN [s1 EXCEPT !.phase = Blocked]
        ELSE IF acc.running > 0 THEN [s1 EXCEPT !.phase = Running]
        ELSE s1

\* case ImageConversion of updatePipeline (the step part).
UpdateImageConversion(step, imp) ==
    LET s1 == IF imp.processing = "ConvertingGuest" /\ imp.procTrue
              THEN MarkStarted(step) ELSE step
        s2 == IF imp.processing # "" /\ s1.started
              THEN [s1 EXCEPT !.phase = imp.processing] ELSE s1
        s3 == [s2 EXCEPT !.done = Scaled(imp.pct, s2.total)]
    IN  IF imp.succeeded = "none" THEN s3
        ELSE LET s4 == [MarkCompleted(s3) EXCEPT !.done = s3.total]
             IN  IF imp.succeeded # "True"
                 THEN [s4 EXCEPT !.error = @ \cup {"ImportFailed: message"},
                                 !.phase = "ImportFailed"]
                 ELSE [s4 EXCEPT !.phase = Completed]

\* The VM conditions case ImageConversion sets.
ProcessingConditions(imp) ==
    IF imp.processing = Pending THEN {Pending}
    ELSE IF imp.processing = "CopyingPaused" THEN {Paused}
    ELSE {}

\* One iteration of the loop over vm.Pipeline.
UpdateStep(vm, imp, i) ==
    LET step == vm.pipeline[i]
    IN  IF step.completed THEN vm
        ELSE LET s1 == IF step.name = DiskTransfer
                       THEN UpdateDiskTransfer(step, imp)
                       ELSE IF step.name = ImageConversion
                       THEN UpdateImageConversion(step, imp)
                       ELSE step
                 s2 == ReflectTasks(s1)
                 cnds == IF step.name = ImageConversion
                         THEN ProcessingConditions(imp) ELSE {}
             IN  [vm EXCEPT !.pipeline[i] = s2,
                            !.conds = @ \cup cnds,
                            !.error = @ \cup s2.error]

RECURSIVE UpdateFrom(_, _, _)
UpdateFrom(vm, imp, i) ==
    IF i > Len(vm.pipeline) THEN vm
    ELSE UpdateFrom(UpdateStep(vm, imp, i), imp, i + 1)

updatePipeline(vm, imp) == UpdateFrom(vm, imp, 1)

(***************************************************************************)
(* step: one phase transition of one VM.                                   *)
(*   in = [ensure, hook, mapErr, found, imp]: what the collaborators       *)
(*   (EnsureImport, HookRunner, ImportMap) answer during this call.        *)
(***************************************************************************)
AddError(vm, msg) == [vm EXCEPT !.error = @ \cup {msg}]

\* HookRunner.Run on the step named by the VM's phase.
RunHook(vm, outcome) ==
    LET i == FindStep(vm, vm.phase)
    IN  IF i = 0 THEN vm
        ELSE LET s == vm.pipeline[i]
             IN  IF outcome = "succeeded"
                 THEN [vm EXCEPT !.pipeline[i] =
                          [MarkCompleted(s) EXCEPT !.done = s.total,
                                                   !.phase = Completed]]
                 ELSE IF outcome = "failed"
                 THEN [vm EXCEPT !.pipeline[i] =
                          [MarkStarted(s) EXCEPT !.error = @ \cup {"HookFailed"}]]
                 ELSE [vm EXCEPT !.pipeline[i] =
                          [MarkStarted(s) EXCEPT !.phase = Running]]

\* A variant of the cancel branch that also marks the VM completed.
StepCanceledAlsoCompletes(vm) ==
    MarkCompleted([vm EXCEPT !.conds = @ \cup {Canceled}, !.phase = Completed])

\* The cancel branch of step: Canceled, phase Completed, return.
StepCanceled(vm) ==
    [vm EXCEPT !.conds = @ \cup {Canceled}, !.phase = Completed]

\* "if step.MarkedCompleted() { next, or Completed when the step has an error }".
AdvanceOn(vm, i) ==
    IF vm.pipeline[i].completed
    THEN IF vm.pipeline[i].error = {}
         THEN [vm EXCEPT !.phase = next(vm.hooks, vm.phase)]
         ELSE [vm EXCEPT !.phase = Completed]
    ELSE vm

\* vm.Warm: unset, or the list of pre-copies [start, end]; end = 0 while
\* the pre-copy is open.
NoWarm == [set |-> FALSE, precopies |-> <<>>]

\* updateWarmStatus: the pre-copies from the Processing condition.
updateWarmStatus(vm, imp) ==
    LET list == vm.warm.precopies
        n == Len(list)
        precopies ==
            IF imp.processing = "CopyingStage"
            THEN IF n = 0 \/ list[n].end # 0
                 THEN Append(list, [start |-> imp.procTime, end |-> 0])
                 ELSE list
            ELSE IF imp.processing = "CopyingPaused"
            THEN IF n # 0 /\ list[n].end = 0
                 THEN [list EXCEPT ![n].end = imp.procTime]
                 ELSE list
            ELSE list
    IN  [vm EXCEPT !.warm = [set |-> TRUE, precopies |-> precopies]]

\* Migration.updateVM once the import map is at hand.
updateVM(vm, in) ==
    IF ~in.found THEN AddError(vm, "ImportNotFound")
    ELSE IF in.imp.warm
    THEN updateWarmStatus(updatePipeline(vm, in.imp), in.imp)
    ELSE updatePipeline(vm, in.imp)

\* A variant of AfterUpdate that looks at DiskTransfer before ImageConversion.
AfterUpdateDiskFirst(vm) ==
    IF FindStep(vm, DiskTransfer) # 0
    THEN AdvanceOn(vm, FindStep(vm, DiskTransfer))
    ELSE IF FindStep(vm, ImageConversion) # 0
    THEN AdvanceOn(vm, FindStep(vm, ImageConversion))
    ELSE vm

\* case ImportCreated after EnsureImport succeeded and updateVM returned nil.
AfterUpdate(vm) ==
    LET ic == FindStep(vm, ImageConversion)
        dt == FindStep(vm, DiskTransfer)
    IN  IF ic # 0 THEN AdvanceOn(vm, ic)
        ELSE IF dt # 0 THEN AdvanceOn(vm, dt)
        ELSE vm

\* A variant that records the error on the VM before looking at its kind.
EnsureFailedRecorded(vm, in) ==
    [vm |-> AddError(vm, "EnsureImport"),
     err |-> IF in.ensure = "NotReady" THEN "NotReady" ELSE "nil",
     ret |-> in.ensure = "NotReady", ensured |-> FALSE]

\* A variant that records the error on the VM and also returns it.
EnsureFailedReturned(vm, in) ==
    [vm |-> IF in.ensure = "NotReady" THEN vm ELSE AddError(vm, "EnsureImport"),
     err |-> in.ensure, ret |-> TRUE, ensured |-> FALSE]

\* What EnsureImport's failure does in CreateImport and ImportCreated:
\* ProviderNotReady is returned, any other error is added to the VM.
EnsureFailed(vm, in) ==
    IF in.ensure = "NotReady"
    THEN [vm |-> vm, err |-> "NotReady", ret |-> TRUE, ensured |-> FALSE]
    ELSE [vm |-> AddError(vm, "EnsureImport"), err |-> "nil", ret |-> FALSE,
          ensured |-> FALSE]

\* The switch on vm.Phase. ret: the call returns without reaching the
\* code after the switch.
StepSwitch(vm, in) ==
    IF vm.phase = Started
    THEN [vm |-> [MarkStarted(vm) EXCEPT !.phase = next(vm.hooks, vm.phase)],
          err |-> "nil", ret |-> FALSE, ensured |-> FALSE]
    ELSE IF vm.phase \in {PreHook, PostHook}
    THEN IF in.hook = "error"
         THEN [vm |-> vm, err |-> "Hook", ret |-> TRUE, ensured |-> FALSE]
         ELSE LET v1 == RunHook(vm, in.hook)
                  i == FindStep(v1, v1.phase)
              IN  [vm |-> IF i # 0
                          THEN IF v1.pipeline[i].completed /\ v1.pipeline[i].error = {}
                               THEN [v1 EXCEPT !.phase = next(v1.hooks, v1.phase)]
                               ELSE v1
                          ELSE [v1 EXCEPT !.phase = Completed],
                   err |-> "nil", ret |-> FALSE, ensured |-> FALSE]
    ELSE IF vm.phase = CreateImport
    THEN IF in.ensure # "ok" THEN EnsureFailed(vm, in)
         ELSE [vm |-> [vm EXCEPT !.phase = next(vm.hooks, vm.phase)],
               err |-> "nil", ret |-> FALSE, ensured |-> TRUE]
    ELSE IF vm.phase = ImportCreated
    THEN IF in.ensure # "ok" THEN EnsureFailed(vm, in)
         ELSE IF in.mapErr
         THEN [vm |-> vm, err |-> "ImportMap", ret |-> TRUE, ensured |-> TRUE]
         ELSE [vm |-> AfterUpdate(updateVM(vm, in)),
               err |-> "nil", ret |-> FALSE, ensured |-> TRUE]
    ELSE IF vm.phase = Completed
    THEN [vm |-> MarkCompleted(vm), err |-> "nil", ret |-> FALSE,
          ensured |-> FALSE]
    ELSE [vm |-> AddError([vm EXCEPT !.phase = Completed], "PhaseUnknown"),
          err |-> "nil", ret |-> FALSE, ensured |-> FALSE]

\* A variant of the code after the switch that leaves a VM with errors in
\* its phase.
StepFinishKeepsPhase(vm) ==
    IF ReflectPipeline(vm).phase = Completed /\ ReflectPipeline(vm).error = {}
    THEN [ReflectPipeline(vm) EXCEPT !.conds = @ \cup {Succeeded}]
    ELSE ReflectPipeline(vm)

\* The code after the switch: ReflectPipeline, then Succeeded/Failed.
StepFinish(vm) ==
    LET v == ReflectPipeline(vm)
    IN  IF v.phase = Completed /\ v.error = {}
        THEN [v EXCEPT !.conds = @ \cup {Succeeded}]
        ELSE IF v.error # {}
        THEN [v EXCEPT !.phase = Completed, !.conds = @ \cup {Failed}]
        ELSE v

\* Migration.step. how: "canceled" (the cancel return), "error" (an
\* early return inside the switch) or "done" (reached the end).
step(vm, in, canceled) ==
    IF canceled
    THEN [vm |-> StepCanceled(vm), err |-> "nil", how |-> "canceled",
          ensured |-> FALSE]
    ELSE LET r == StepSwitch(vm, in)
         IN  IF r.ret
             THEN [vm |-> r.vm, err |-> r.err, how |-> "error",
                   ensured |-> r.ensured]
             ELSE [vm |-> StepFinish(r.vm), err |-> "nil", how |-> "done",
                   ensured |-> r.ensured]

(***************************************************************************)
(* The inputs a step call can meet.                                        *)
(***************************************************************************)
NoImp == [dvs |-> <<>>, processing |-> "", procTrue |-> FALSE,
          succeeded |-> "none", pct |-> 0, warm |-> FALSE, procTime |-> 0]

DefaultIn == [ensure |-> "ok", hook |-> "succeeded", mapErr |-> FALSE,
              found |-> TRUE, imp |-> NoImp]

\* A data volume of task t: copying at 50%, or Running and Ready.
DvCopying(t) ==
    [task |-> t, boundFalse |-> FALSE, running |-> TRUE, ready |-> FALSE, pct |-> 50]

DvReady(t) ==
    [task |-> t, boundFalse |-> FALSE, running |-> TRUE, ready |-> TRUE, pct |-> 100]

\* The data volumes a reconcile observes on an import of n disks: none
\* yet, every disk copying, the first disk ready and the others copying,
\* every disk ready.
DvsObs(n) ==
    {<<>>,
     [t \in 1..n |-> DvCopying(t)],
     [t \in 1..n |-> IF t = 1 THEN DvReady(t) ELSE DvCopying(t)],
     [t \in 1..n |-> DvReady(t)]}

\* The import's Succeeded condition: absent, True or False.
ConversionObs ==
    {[processing |-> "", procTrue |-> FALSE, succeeded |-> s, pct |-> 0]
        : s \in {"none", "True", "False"}}

ImpObs(vm) ==
    LET dt == FindStep(vm, DiskTransfer)
        n == IF dt = 0 THEN 0 ELSE Len(vm.pipeline[dt].tasks)
        cs == IF FindStep(vm, ImageConversion) = 0
              THEN {[processing |-> "", procTrue |-> FALSE, succeeded |-> "none", pct |-> 0]}
              ELSE ConversionObs
    IN  {[dvs |-> d, processing |-> c.processing, procTrue |-> c.procTrue,
          succeeded |-> c.succeeded, pct |-> c.pct, warm |-> FALSE,
          procTime |-> 0]
            : d \in DvsObs(n), c \in cs}

StepInputs(vm) ==
    IF vm.phase \in {PreHook, PostHook}
    THEN {[DefaultIn EXCEPT !.hook = h]
            : h \in {"error", "running", "succeeded", "failed"}}
    ELSE IF vm.phase = CreateImport
    THEN {[DefaultIn EXCEPT !.ensure = e] : e \in {"ok", "NotReady", "Error"}}
    ELSE IF vm.phase = ImportCreated
    THEN {[DefaultIn EXCEPT !.ensure = e] : e \in {"NotReady", "Error"}}
         \cup {[DefaultIn EXCEPT !.mapErr = TRUE], [DefaultIn EXCEPT !.found = FALSE]}
         \cup {[DefaultIn EXCEPT !.imp = m] : m \in ImpObs(vm)}
    ELSE {DefaultIn}

(***************************************************************************)
(* begin: stamp the snapshot and reconcile the VM set with the plan spec.  *)
(*   fault = [kind, at]: "none"; "namespace" (EnsureNamespace fails);      *)
(*   "inventory" (Inventory.VM fails on a status); "build" (buildPipeline  *)
(*   fails for the at-th VM of the plan spec).                             *)
(***************************************************************************)
TerminalConditions == {Succeeded, Failed, Canceled}

NewStatus(pvm) ==
    [ref |-> pvm.ref, hooks |-> pvm.hooks, phase |-> "", started |-> FALSE,
     completed |-> FALSE, conds |-> {}, error |-> {}, pipeline |-> <<>>,
     warm |-> NoWarm]

\* Index of the first status with that ref, 0 if none.
FindVM(list, ref) ==
    LET hits == {i \in DOMAIN list : list[i].ref = ref}
    IN  IF hits = {} THEN 0 ELSE Min(hits)

InSpec(planSpec, ref) == \E i \in DOMAIN planSpec : planSpec[i].ref = ref

\* "status.Phase != Completed || status.HasAnyCondition(Canceled, Failed)"
NeedsReset(status) ==
    status.phase # Completed \/ status.conds \cap {Canceled, Failed} # {}

\* The reset branch of the Add/Update loop.
ResetStatus(status, pvm, prov) ==
    [MarkReset(status) EXCEPT !.conds = @ \ {Canceled, Failed},
                              !.pipeline = buildPipeline(pvm.hooks, prov, pvm.ref),
                              !.phase = First(pvm.hooks),
                              !.error = {},
                              !.warm = NoWarm]

\* The status the Add/Update loop appends for one plan VM.
Reconciled(kept, pvm, prov) ==
    LET j == FindVM(kept, pvm.ref)
        status == IF j = 0 THEN NewStatus(pvm) ELSE kept[j]
    IN  IF NeedsReset(status) THEN ResetStatus(status, pvm, prov) ELSE status

\* The faults begin can meet in the given state.
BeginFaults(planSpec, list) ==
    LET kept == SelectSeq(list, LAMBDA st : InSpec(planSpec, st.ref))
    IN  {[kind |-> "none", at |-> 0], [kind |-> "namespace", at |-> 0]}
        \cup (IF list # <<>> THEN {[kind |-> "inventory", at |-> 0]} ELSE {})
        \cup {[kind |-> "build", at |-> k] : k \in
                {k \in DOMAIN planSpec :
                   LET j == FindVM(kept, planSpec[k].ref)
                   IN  NeedsReset(IF j = 0 THEN NewStatus(planSpec[k]) ELSE kept[j])}}

begin(snap, tm, list, planSpec, prov, fault) ==
    IF snap \cap ({Executing} \cup TerminalConditions) # {}
    THEN [snapshot |-> snap, timed |-> tm, vms |-> list, err |-> "nil"]
    ELSE LET snap1 == snap \cup {Executing}
             tm1 == MarkStarted(MarkReset(tm))
             kept == SelectSeq(list, LAMBDA st : InSpec(planSpec, st.ref))
         IN  IF fault.kind \in {"namespace", "inventory"}
             THEN [snapshot |-> snap1, timed |-> tm1, vms |-> list, err |-> "Begin"]
             ELSE IF fault.kind = "none"
             THEN [snapshot |-> snap1, timed |-> tm1,
                   vms |-> [k \in DOMAIN planSpec |->
                               Reconciled(kept, planSpec[k], prov)],
                   err |-> "nil"]
             ELSE \* buildPipeline failed for planSpec[fault.at]: the statuses of
                  \* earlier plan VMs were updated in place, the list is `kept`.
                  [snapshot |-> snap1, timed |-> tm1,
                   vms |-> [j \in DOMAIN kept |->
                               IF \E k \in 1..(fault.at - 1) :
                                     FindVM(kept, planSpec[k].ref) = j
                               THEN Reconciled(kept,
                                       planSpec[CHOOSE k \in 1..(fault.at - 1) :
                                                  FindVM(kept, planSpec[k].ref) = j],
                                       prov)
                               ELSE kept[j]],
                   err |-> "Begin"]

\* Migration.runningVMs: indices of the running statuses, in order.
RECURSIVE RunningFrom(_, _)
RunningFrom(list, i) ==
    IF i > Len(list) THEN <<>>
    ELSE (IF IsRunning(list[i]) THEN <<i>> ELSE <<>>) \o RunningFrom(list, i + 1)

runningVMs(list) == RunningFrom(list, 1)

\* scheduler.Next: the first status neither started nor completed.
PendingVMs(list) == {i \in DOMAIN list : ~list[i].started /\ ~list[i].completed}

(***************************************************************************)
(* Cancel and end.                                                         *)
(*   cin = [initErr, failAt]: init fails; DeleteImport fails at the        *)
(*   failAt-th status (0: never).                                          *)
(***************************************************************************)
CompleteStarted(pipeline) ==
    [i \in DOMAIN pipeline |->
        IF pipeline[i].started THEN MarkCompleted(pipeline[i]) ELSE pipeline[i]]

\* A variant of CancelApplies that only looks at the Canceled condition.
CancelAppliesCanceledOnly(vm) == Canceled \in vm.conds

\* "vm.HasAnyCondition(Canceled, Failed)"
CancelApplies(vm) == vm.conds \cap {Canceled, Failed} # {}

CancelInputs(list) ==
    {[initErr |-> TRUE, failAt |-> 0]}
    \cup {[initErr |-> FALSE, failAt |-> k]
            : k \in {0} \cup {i \in DOMAIN list : CancelApplies(list[i])}}

Cancel(list, imps, cin) ==
    IF cin.initErr THEN [vms |-> list, imports |-> imps, err |-> "Cancel"]
    ELSE LET hit(i) == CancelApplies(list[i]) /\ (cin.failAt = 0 \/ i < cin.failAt)
         IN  [vms |-> [i \in DOMAIN list |->
                          IF hit(i)
                          THEN [MarkCompleted(list[i]) EXCEPT
                                   !.pipeline = CompleteStarted(@)]
                          ELSE list[i]],
              imports |-> imps \ {list[i].ref : i \in {j \in DOMAIN list : hit(j)}},
              err |-> IF cin.failAt = 0 THEN "nil" ELSE "Cancel"]

\* A variant of Outcome that looks at the successes first.
OutcomeSucceededFirst(list) ==
    IF \E i \in DOMAIN list : Succeeded \in list[i].conds THEN Succeeded
    ELSE IF \E i \in DOMAIN list : Failed \in list[i].conds THEN Failed
    ELSE Canceled

\* The terminal condition end() stamps.
Outcome(list) ==
    IF \E i \in DOMAIN list : Failed \in list[i].conds THEN Failed
    ELSE IF \E i \in DOMAIN list : Succeeded \in list[i].conds THEN Succeeded
    ELSE Canceled

\* A variant of end that neither deletes Executing nor calls Cancel.
endKeepsExecuting(snap, tm, list, imps, cin) ==
    IF \E i \in DOMAIN list : ~list[i].completed
    THEN [completed |-> FALSE, snapshot |-> snap, timed |-> tm, vms |-> list,
          imports |-> imps, err |-> "nil", canceled |-> FALSE]
    ELSE [completed |-> TRUE, snapshot |-> snap \cup {Outcome(list)},
          timed |-> MarkCompleted(tm), vms |-> list, imports |-> imps,
          err |-> "nil", canceled |-> FALSE]

\* A variant of end that cancels the failed VMs before it looks for VMs
\* that have not completed.
endCancelsFirst(snap, tm, list, imps, cin) ==
    IF /\ \E i \in DOMAIN list : ~list[i].completed
       /\ \E i \in DOMAIN list : Failed \in list[i].conds
    THEN [completed |-> FALSE, snapshot |-> snap, timed |-> tm,
          vms |-> Cancel(list, imps, cin).vms,
          imports |-> Cancel(list, imps, cin).imports,
          err |-> "nil", canceled |-> TRUE]
    ELSE IF \E i \in DOMAIN list : ~list[i].completed
    THEN [completed |-> FALSE, snapshot |-> snap, timed |-> tm, vms |-> list,
          imports |-> imps, err |-> "nil", canceled |-> FALSE]
    ELSE [completed |-> TRUE,
          snapshot |-> (snap \ {Executing}) \cup {Outcome(list)},
          timed |-> MarkCompleted(tm), vms |-> list,
          imports |-> imps, err |-> "nil", canceled |-> FALSE]

\* Migration.end: nothing while a VM is not marked completed; else stamp
\* the snapshot, and call Cancel when a VM has failed.
end(snap, tm, list, imps, cin) ==
    IF \E i \in DOMAIN list : ~list[i].completed
    THEN [completed |-> FALSE, snapshot |-> snap, timed |-> tm, vms |-> list,
          imports |-> imps, err |-> "nil", canceled |-> FALSE]
    ELSE LET snap1 == (snap \ {Executing}) \cup {Outcome(list)}
             c == Cancel(list, imps, cin)
         IN  IF Outcome(list) = Failed
             THEN [completed |-> TRUE, snapshot |-> snap1,
                   timed |-> MarkCompleted(tm), vms |-> c.vms,
                   imports |-> c.imports, err |-> c.err, canceled |-> TRUE]
             ELSE [completed |-> TRUE, snapshot |-> snap1,
                   timed |-> MarkCompleted(tm), vms |-> list,
                   imports |-> imps, err |-> "nil", canceled |-> FALSE]

(***************************************************************************)
(* State.                                                                  *)
(***************************************************************************)
(***************************************************************************)
(* The vSphere inventory cluster (model/vsphere/model.go) and its REST     *)
(* resource (web/vsphere/cluster.go).                                      *)
(***************************************************************************)
\* The objects a cluster's list fields refer to.
ClusterRefs == {"x-1", "x-2"}

RefLists == UNION {[1..n -> ClusterRefs] : n \in 0..MaxRefs}

\* model.Cluster: Base (its ID) and the fields of the struct.
ModelClusters ==
    [id : {"domain-c1"},
     folder : {"group-h1"},
     hosts : RefLists,
     networks : RefLists,
     datastores : RefLists,
     dasEnabled : BOOLEAN,
     dasVms : RefLists,
     drsEnabled : BOOLEAN,
     drsBehavior : {"manual"},
     drsVms : RefLists]

\* The zero value of model.Cluster.
NoCluster ==
    [id |-> "", folder |-> "", hosts |-> <<>>, networks |-> <<>>,
     datastores |-> <<>>, dasEnabled |-> FALSE, dasVms |-> <<>>,
     drsEnabled |-> FALSE, drsBehavior |-> "", drsVms |-> <<>>]

\* "&Cluster{}": the zero value of the REST resource.
EmptyCluster ==
    [id |-> "", folder |-> "", networks |-> <<>>, datastores |-> <<>>,
     hosts |-> <<>>, dasEnabled |-> FALSE, dasVms |-> <<>>,
     drsEnabled |-> FALSE, drsBehavior |-> "", drsVms |-> <<>>]

\* Resource.With(&m.Base): the resource takes the identity of the model.
ResourceWith(r, m) == [r EXCEPT !.id = m.id]

\* Cluster.With(m), statement by statement.
With(r, m) ==
    LET r1 == [r EXCEPT !.folder = m.folder]
        r2 == ResourceWith(r1, m)
        r3 == [r2 EXCEPT !.dasEnabled = m.dasEnabled]
        r4 == [r3 EXCEPT !.drsEnabled = m.drsEnabled]
        r5 == [r4 EXCEPT !.drsBehavior = m.drsBehavior]
        r6 == [r5 EXCEPT !.networks = m.networks]
        r7 == [r6 EXCEPT !.datastores = m.datastores]
        r8 == [r7 EXCEPT !.hosts = m.hosts]
        r9 == [r8 EXCEPT !.dasVms = m.dasVms]
    IN  [r9 EXCEPT !.drsVms = m.dasVms]

VARIABLES
    provider,   \* source provider type of the plan
    planSpec,   \* plan.Spec.VMs: sequence of [ref, hooks]
    cancelSet,  \* migration.Spec.Cancel
    snapshot,   \* condition types of the active snapshot
    timed,      \* started/completed marks of plan.Status.Migration
    vms,        \* plan.Status.Migration.VMs
    imports,    \* refs of the VMs that have a downstream import
    pc,         \* position of Run: "idle", "steps", "sched"
    queue,      \* runningVMs() still to be stepped by this Run
    reQ,        \* requeue delay of the Run that has just returned
    err,        \* error of the Run that has just returned
    nsnap,      \* number of snapshots opened after the first
    vmsAtRun,   \* the status list when the Run in progress began
    last,       \* the last call: what it was and what it met
    observed,   \* the Processing conditions the warm reconciles have met
    predicate,  \* itinerary.Predicate: the hooks of the VM it points to
    inst,       \* two Migration instances of different plans, mid-call
    model,      \* a vSphere model.Cluster of the inventory
    resource    \* the REST Cluster resource built from it

vars == << provider, planSpec, cancelSet, snapshot, timed, vms, imports, pc,
           queue, reQ, err, nsnap, vmsAtRun, last, observed, predicate, inst,
           model, resource >>

\* The plans: one VM (one disk, without or with hooks; or two disks), or
\* two VMs.
PlanSpecs ==
    {<< [ref |-> "a", hooks |-> {}] >>,
     << [ref |-> "a", hooks |-> {PreHook, PostHook}] >>,
     << [ref |-> "b", hooks |-> {}] >>,
     << [ref |-> "a", hooks |-> {}], [ref |-> "c", hooks |-> {}] >>}

\* The plans a later execution runs.
LaterPlanSpecs == {p \in PlanSpecs : Len(p) = 1}

\* last = [op, idx, how, end]: the step call (on vms[idx], returning how)
\* and the end call (what it did) of the last transition.
NoCall == [op |-> "none", idx |-> 0, how |-> "", end |-> ""]

Init ==
    /\ provider \in {VSphere, OVirt}
    /\ planSpec \in PlanSpecs
    /\ cancelSet = {}
    /\ snapshot = {}
    /\ timed = [started |-> FALSE, completed |-> FALSE]
    /\ vms = <<>>
    /\ imports = {}
    /\ pc = "idle"
    /\ queue = <<>>
    /\ reQ = PollReQ
    /\ err = "nil"
    /\ nsnap = 0
    /\ vmsAtRun = <<>>
    /\ last = NoCall
    /\ observed = <<>>
    /\ predicate = {}
    /\ model = NoCluster
    /\ resource = EmptyCluster
    /\ inst = <<>>

(***************************************************************************)
(* Run, in the order of its body.                                          *)
(***************************************************************************)
\* Run returns (reQ, err).
Return(q, e) ==
    /\ pc' = "idle"
    /\ queue' = <<>>
    /\ reQ' = q
    /\ err' = e
    /\ vmsAtRun' = <<>>

\* The status the VM had when this Run began (an empty one when it had none).
AtRun(ref) ==
    LET j == FindVM(vmsAtRun, ref)
    IN  IF j = 0 THEN NewStatus([ref |-> "", hooks |-> {}]) ELSE vmsAtRun[j]

\* Run up to the running loop: init, begin, resolveCanceledRefs, runningVMs.
RunBegin ==
    /\ pc = "idle"
    /\ \E initErr \in BOOLEAN, fault \in BeginFaults(planSpec, vms) :
          IF initErr
          THEN /\ Return(PollReQ, "Init")
               /\ last' = NoCall
               /\ UNCHANGED << snapshot, timed, vms >>
          ELSE \E b \in {begin(snapshot, timed, vms, planSpec, provider, fault)} :
                   /\ snapshot' = b.snapshot
                   /\ timed' = b.timed
                   /\ vms' = b.vms
                   /\ last' = NoCall
                   /\ IF b.err # "nil"
                      THEN Return(PollReQ, b.err)
                      ELSE /\ queue' = runningVMs(b.vms)
                           /\ pc' = IF runningVMs(b.vms) = <<>> THEN "sched" ELSE "steps"
                           /\ vmsAtRun' = vms
                           /\ reQ' = PollReQ
                           /\ err' = "nil"
    /\ UNCHANGED << model, resource, predicate, inst, observed, provider, planSpec, cancelSet, imports, nsnap >>

\* One iteration of "for _, vm := range r.runningVMs()".
StepRunning ==
    /\ pc = "steps"
    /\ \E i \in {Head(queue)} :
         \E in \in StepInputs(vms[i]) :
           \E r \in {step(vms[i], in, vms[i].ref \in cancelSet)} :
                  /\ vms' = [vms EXCEPT ![i] = r.vm]
                  /\ imports' = IF r.ensured THEN imports \cup {vms[i].ref}
                                ELSE imports
                  /\ last' = [op |-> "step", idx |-> i, how |-> r.how, end |-> ""]
                  /\ IF r.err # "nil"
                     THEN Return(PollReQ, r.err)
                     ELSE /\ queue' = Tail(queue)
                          /\ pc' = IF Tail(queue) = <<>> THEN "sched" ELSE "steps"
                          /\ UNCHANGED << reQ, err, vmsAtRun >>
    /\ UNCHANGED << model, resource, predicate, inst, observed, provider, planSpec, cancelSet, snapshot, timed, nsnap >>

\* A variant of Requeue that never asks for another Run.
RequeueNoneAlways(completed) == NoReQ

\* The delay Run returns after end(): "if completed { reQ = NoReQ }".
Requeue(completed) == IF completed THEN NoReQ ELSE PollReQ

\* end() and the return of Run, on the state (list, imps) the steps left;
\* lst: the step call that came before it in this transition.
EndCall(list, imps, lst) ==
    \E cin \in CancelInputs(list) :
      \E e \in {end(snapshot, timed, list, imps, cin)} :
            /\ snapshot' = e.snapshot
            /\ timed' = e.timed
            /\ vms' = e.vms
            /\ imports' = e.imports
            /\ last' = [lst EXCEPT !.end = IF e.canceled THEN "cancel"
                                          ELSE IF e.completed THEN "completed"
                                          ELSE "open"]
            /\ Return(Requeue(e.completed), e.err)

\* scheduler.Next() fails: Run returns its error.
SchedulerFails ==
    /\ pc = "sched"
    /\ Return(PollReQ, "Scheduler")
    /\ last' = NoCall
    /\ UNCHANGED << model, resource, predicate, inst, observed, provider, planSpec, cancelSet, snapshot, timed, vms,
                    imports, nsnap >>

\* scheduler.Next() admits no VM; then end().
ScheduleNone ==
    /\ pc = "sched"
    /\ EndCall(vms, imports, [NoCall EXCEPT !.op = "end"])
    /\ UNCHANGED << model, resource, predicate, inst, observed, provider, planSpec, cancelSet, nsnap >>

\* scheduler.Next() admits the first pending VM; step it; then end().
ScheduleNext ==
    /\ pc = "sched"
    /\ PendingVMs(vms) # {}
    /\ \E i \in {Min(PendingVMs(vms))} :
         \E in \in StepInputs(vms[i]) :
           \E r \in {step(vms[i], in, vms[i].ref \in cancelSet)} :
              LET list == [vms EXCEPT ![i] = r.vm]
                  imps == IF r.ensured THEN imports \cup {vms[i].ref} ELSE imports
              IN  IF r.err # "nil"
                  THEN /\ vms' = list
                       /\ imports' = imps
                       /\ last' = [op |-> "step", idx |-> i, how |-> r.how,
                                   end |-> ""]
                       /\ Return(PollReQ, r.err)
                       /\ UNCHANGED << snapshot, timed >>
                  ELSE EndCall(list, imps,
                               [op |-> "step", idx |-> i, how |-> r.how,
                                end |-> ""])
    /\ UNCHANGED << model, resource, predicate, inst, observed, provider, planSpec, cancelSet, nsnap >>

(***************************************************************************)
(* What happens between two Runs.                                          *)
(***************************************************************************)
\* reQ and err hold the result of the Run that has just returned; what
\* happens next forgets them.
Forget ==
    /\ reQ' = PollReQ
    /\ err' = "nil"

\* Migration.Cancel called by the plan controller.
CancelCall ==
    /\ pc = "idle"
    /\ \E cin \in CancelInputs(vms) :
          \E c \in {Cancel(vms, imports, cin)} :
              /\ vms' = c.vms
              /\ imports' = c.imports
              /\ err' = c.err
              /\ last' = [NoCall EXCEPT !.op = "cancel"]
    /\ reQ' = PollReQ
    /\ UNCHANGED << model, resource, predicate, inst, observed, provider, planSpec, cancelSet, snapshot, timed, pc, queue,
                    nsnap, vmsAtRun >>

\* The user adds a VM of the plan to migration.Spec.Cancel.
UserCancel ==
    /\ pc = "idle"
    /\ \E i \in DOMAIN planSpec :
          /\ planSpec[i].ref \notin cancelSet
          /\ cancelSet' = cancelSet \cup {planSpec[i].ref}
    /\ last' = NoCall
    /\ Forget
    /\ UNCHANGED << model, resource, predicate, inst, observed, provider, planSpec, snapshot, timed, vms, imports, pc,
                    queue, nsnap, vmsAtRun >>

\* A new migration of the plan: a fresh active snapshot, a fresh cancel
\* set, the plan possibly edited since the last execution.
NewSnapshot ==
    /\ pc = "idle"
    /\ nsnap < MaxSnapshots
    /\ snapshot \cap TerminalConditions # {}
    /\ snapshot' = {}
    /\ cancelSet' = {}
    /\ planSpec' \in LaterPlanSpecs
    /\ nsnap' = nsnap + 1
    /\ last' = NoCall
    /\ Forget
    /\ UNCHANGED << model, resource, predicate, inst, observed, provider, timed, vms, imports, pc, queue, vmsAtRun >>

Next ==
    \/ RunBegin
    \/ StepRunning
    \/ SchedulerFails
    \/ ScheduleNone
    \/ ScheduleNext
    \/ CancelCall
    \/ UserCancel
    \/ NewSnapshot

Spec == Init /\ [][Next]_vars

\* A Run that gets past init and begin, a step of the running loop that
\* returns nil, and a Run that gets to evaluate end().
RunStarts == RunBegin /\ pc' # "idle"

StepReturnsNil == StepRunning /\ pc' # "idle"

EndEvaluated == (ScheduleNone \/ ScheduleNext) /\ last'.end # ""

\* The execution of the first snapshot of a plan of one VM without hooks.
OneVMInit == Init /\ planSpec = <<[ref |-> "a", hooks |-> {}]>>

OneSnapshotNext ==
    \/ RunBegin
    \/ StepRunning
    \/ SchedulerFails
    \/ ScheduleNone
    \/ ScheduleNext
    \/ CancelCall
    \/ UserCancel

\* The plan controller calls Run again for as long as Run asks for it, and
\* the cluster does not fail every call: each of the three happens again
\* and again while it remains possible.
FairSpec ==
    /\ OneVMInit
    /\ [][OneSnapshotNext]_vars
    /\ SF_vars(RunStarts)
    /\ SF_vars(StepReturnsNil)
    /\ SF_vars(EndEvaluated)

(***************************************************************************)
(* Properties.                                                             *)
(***************************************************************************)
RefCount(list, ref) == Cardinality({i \in DOMAIN list : list[i].ref = ref})

\* The transition has called step on vms[i].
Stepped(i) == pc # "idle" /\ last'.op = "step" /\ last'.idx = i

\* The last transition has run end() to its end (the plan is finalized).
Finalized == last.end \in {"completed", "cancel"}

\* C1: no VM status carries both Succeeded and Failed, and a status that
\* carries Succeeded or Failed has phase Completed.
C1_SucceededXorFailed ==
    \A i \in DOMAIN vms :
        /\ ~({Succeeded, Failed} \subseteq vms[i].conds)
        /\ vms[i].conds \cap {Succeeded, Failed} # {} => vms[i].phase = Completed

\* A transition under an executing snapshot keeps the VM list and moves
\* phases only to later entries of the itinerary.
PhaseForward ==
    snapshot # {} =>
        /\ DOMAIN vms' = DOMAIN vms
        /\ \A i \in DOMAIN vms :
              vms'[i].phase # vms[i].phase =>
                 /\ PhaseIndex(vms[i].phase) # 0
                 /\ PhaseIndex(vms'[i].phase) > PhaseIndex(vms[i].phase)

\* C2: while a snapshot is being executed, every change of a VM's phase is
\* to a strictly later entry of the itinerary (Completed is the last one),
\* so no phase moves back and none leaves Completed.
C2_PhaseForward == [][PhaseForward]_vars

C2_Witness ==
    /\ last.op = "step"
    /\ last.how = "done"
    /\ vms[last.idx].phase = PostHook

\* C3: when end() finalizes the plan, every VM is marked completed and the
\* snapshot carries exactly one terminal condition: Failed if some VM has
\* Failed, else Succeeded if some VM has Succeeded, else Canceled; and
\* end() has called Cancel() exactly in the Failed case.
C3_EndOutcome ==
    Finalized =>
        LET anyFailed == \E i \in DOMAIN vms : Failed \in vms[i].conds
            anySucceeded == \E i \in DOMAIN vms : Succeeded \in vms[i].conds
        IN  /\ \A i \in DOMAIN vms : vms[i].completed
            /\ Cardinality(snapshot \cap TerminalConditions) = 1
            /\ anyFailed => Failed \in snapshot
            /\ ~anyFailed /\ anySucceeded => Succeeded \in snapshot
            /\ ~anyFailed /\ ~anySucceeded => Canceled \in snapshot
            /\ (last.end = "cancel") <=> (Failed \in snapshot)

C3_Witness ==
    /\ Finalized
    /\ Failed \in snapshot
    /\ \E i \in DOMAIN vms : Succeeded \in vms[i].conds
    /\ \E i \in DOMAIN vms : Failed \in vms[i].conds

\* A transition that removes Executing is an end() that finalizes.
ExecutingRemovedByEnd ==
    Executing \in snapshot /\ Executing \notin snapshot' =>
        /\ last'.end \in {"completed", "cancel"}
        /\ snapshot' \cap TerminalConditions # {}

\* C4: once begin() has stamped the snapshot, it has Executing if and only
\* if it has none of Succeeded, Failed, Canceled; and Executing is removed
\* only by an end() call that stamps a terminal condition.
C4_ExecutingUntilTerminal ==
    /\ [](snapshot # {} =>
            ((Executing \in snapshot) <=> (snapshot \cap TerminalConditions = {})))
    /\ [][ExecutingRemovedByEnd]_vars

C4_Witness ==
    /\ Finalized
    /\ Executing \notin snapshot
    /\ Canceled \in snapshot

\* C5: right after begin() has returned nil in a Run, the VM refs of the
\* status list are those of the plan spec, each exactly once.
C5_StatusMatchesSpec ==
    pc # "idle" =>
        \A r \in Refs : RefCount(vms, r) = RefCount(planSpec, r)

\* The effect of a step call on a VM of the cancel set.
CancelOnly ==
    \A i \in DOMAIN vms :
        Stepped(i) /\ vms[i].ref \in cancelSet =>
           /\ last'.how = "canceled"
           /\ vms'[i] = [vms[i] EXCEPT !.conds = @ \cup {Canceled},
                                       !.phase = Completed]
           /\ \A j \in DOMAIN vms : j # i => vms'[j] = vms[j]
           /\ imports' = imports
           /\ err' = "nil"

\* C6: step on a VM whose ref is in the cancel set sets Canceled and phase
\* Completed and nothing else: the pipeline, the error list, the
\* started/completed marks, the Succeeded/Failed conditions, the imports
\* and every other VM are left as they were, and the call returns nil.
C6_CancelOnly == [][CancelOnly]_vars

C6_Witness ==
    /\ last.op = "step"
    /\ last.how = "canceled"
    /\ vms[last.idx].phase = Completed
    /\ vms[last.idx].ref \in imports
    /\ \E k \in DOMAIN vms[last.idx].pipeline :
          /\ vms[last.idx].pipeline[k].started
          /\ ~vms[last.idx].pipeline[k].completed

\* The user has put the plan's only VM in the cancel set while it is in
\* phase ImportCreated with its disk transfer in progress.
CanceledMidTransfer ==
    /\ Len(vms) = 1
    /\ vms[1].ref \in cancelSet
    /\ vms[1].phase = ImportCreated
    /\ vms[1].conds \cap TerminalConditions = {}
    /\ FindStep(vms[1], DiskTransfer) # 0
    /\ vms[1].pipeline[FindStep(vms[1], DiskTransfer)].started
    /\ ~vms[1].pipeline[FindStep(vms[1], DiskTransfer)].completed

CancelSettled ==
    /\ Len(vms) = 1
    /\ vms[1].phase = Completed
    /\ Canceled \in vms[1].conds
    /\ vms[1].ref \notin imports
    /\ Canceled \in snapshot

\* C7: once the user has canceled the plan's only VM in the middle of its
\* disk transfer, the Runs that follow lead to the VM having phase Completed
\* and Canceled, its import deleted and the snapshot stamped Canceled.
C7_CancelMidTransfer == CanceledMidTransfer ~> CancelSettled

\* The return of a Run whose step met ProviderNotReady.
NotReadyLeavesVM ==
    pc # "idle" /\ pc' = "idle" /\ err' = "NotReady" =>
        /\ reQ' = PollReQ
        /\ last'.op = "step"
        /\ vms' = vms
        /\ imports' = imports
        /\ vms'[last'.idx] = AtRun(vms[last'.idx].ref)
        /\ vms[last'.idx].phase \in {CreateImport, ImportCreated}
        /\ IsRunning(vms'[last'.idx])

\* C8: when EnsureImport answers ProviderNotReady, Run returns that error
\* with the poll delay, the VM is as it was before the Run (no error, no
\* Failed), no import was created, and the VM is still running, so the
\* next Run steps it again.
C8_NotReadyLeavesVM == [][NotReadyLeavesVM]_vars

C8_Witness ==
    /\ pc = "idle"
    /\ err = "NotReady"
    /\ vms[last.idx].phase = ImportCreated

\* C9: Run returns NoReQ only with a terminal condition and no Executing
\* on the snapshot; without a terminal condition, and on every error of
\* init, begin, step or the scheduler, it returns PollReQ.
C9_RequeueUnlessFinal ==
    pc = "idle" =>
        /\ reQ \in {NoReQ, PollReQ}
        /\ reQ = NoReQ =>
              /\ snapshot \cap TerminalConditions # {}
              /\ Executing \notin snapshot
        /\ snapshot \cap TerminalConditions = {} => reQ = PollReQ
        /\ err \in {"Init", "Begin", "NotReady", "Hook", "ImportMap", "Scheduler"}
              => reQ = PollReQ

C9_Witness ==
    /\ pc = "idle"
    /\ reQ = NoReQ
    /\ err = "Cancel"

\* C10: a VM status carries at most one of Succeeded, Failed, Canceled.
C10_OneTerminalCondition ==
    \A i \in DOMAIN vms :
        Cardinality(vms[i].conds \cap TerminalConditions) <= 1

\* The hooks the plan binds to the VM of that ref.
PlanHooks(ref) ==
    IF FindVM(planSpec, ref) = 0 THEN {}
    ELSE planSpec[FindVM(planSpec, ref)].hooks

\* The phase that follows in Started, [PreHook], CreateImport,
\* ImportCreated, [PostHook], Completed for a VM with these hooks.
Successor(hooks, phase) ==
    IF phase = Started
    THEN IF PreHook \in hooks THEN PreHook ELSE CreateImport
    ELSE IF phase = PreHook THEN CreateImport
    ELSE IF phase = CreateImport THEN ImportCreated
    ELSE IF phase = ImportCreated
    THEN IF PostHook \in hooks THEN PostHook ELSE Completed
    ELSE Completed

\* A step call that changes the phase of a VM that is not canceled and has
\* no error moves it to the successor of its phase.
PhaseBySuccessor ==
    \A i \in DOMAIN vms :
        (/\ snapshot # {}
         /\ i \in DOMAIN vms'
         /\ vms'[i].phase # vms[i].phase
         /\ vms'[i].error = {}
         /\ Canceled \notin vms'[i].conds)
        => vms'[i].phase = Successor(PlanHooks(vms[i].ref), vms[i].phase)

CanceledStatus(vm) ==
    [vm EXCEPT !.started = TRUE,
               !.completed = TRUE,
               !.pipeline = [k \in DOMAIN vm.pipeline |->
                               IF vm.pipeline[k].started
                               THEN [vm.pipeline[k] EXCEPT !.completed = TRUE]
                               ELSE vm.pipeline[k]]]

\* A transition made of one Cancel() call on the current status: the call
\* of the controller, or the call end() makes for a failed plan.
CancelRan ==
    \/ last'.op = "cancel"
    \/ last'.op = "end" /\ last'.end = "cancel"

CancelEffect ==
    CancelRan =>
        /\ DOMAIN vms' = DOMAIN vms
        /\ \A i \in DOMAIN vms :
              IF vms[i].conds \cap {Canceled, Failed} # {}
              THEN /\ err' = "nil" =>
                        /\ vms'[i] = CanceledStatus(vms[i])
                        /\ vms[i].ref \notin imports'
                   /\ \A k \in DOMAIN vms[i].pipeline :
                        ~vms[i].pipeline[k].started =>
                            vms'[i].pipeline[k] = vms[i].pipeline[k]
              ELSE /\ vms'[i] = vms[i]
                   /\ vms[i].ref \in imports' <=> vms[i].ref \in imports

\* C12: a Cancel() call that returns nil, made by the controller or by end()
\* for a failed plan, deletes the import of every VM with Canceled or Failed
\* and marks that VM and each of its started steps completed; a VM with
\* neither condition keeps its import, its completion mark and its pipeline,
\* and a step that never started is not marked completed.
C12_CancelFrame == [][CancelEffect]_vars

C12_Witness ==
    /\ last.op = "end"
    /\ last.end = "cancel"
    /\ err = "nil"
    /\ \E i, j \in DOMAIN vms :
          /\ Failed \in vms[i].conds
          /\ vms[i].completed
          /\ vms[i].ref \notin imports
          /\ \E k \in DOMAIN vms[i].pipeline : ~vms[i].pipeline[k].started
          /\ Succeeded \in vms[j].conds
          /\ vms[j].ref \in imports

\* The parts of a result that make the plan status and the set of imports.
StatusOf(r) == << r.snapshot, r.vms, r.imports >>

BeginTwice ==
    \A fault \in BeginFaults(planSpec, vms) :
        LET once == begin(snapshot, timed, vms, planSpec, provider, fault)
            twice == begin(once.snapshot, once.timed, once.vms, planSpec,
                           provider, fault)
        IN  /\ twice.snapshot = once.snapshot
            /\ twice.vms = once.vms

EndTwice ==
    \A cin \in CancelInputs(vms) :
        LET once == end(snapshot, timed, vms, imports, cin)
            twice == end(once.snapshot, once.timed, once.vms, once.imports, cin)
        IN  StatusOf(twice) = StatusOf(once)

CancelTwice ==
    \A cin \in CancelInputs(vms) :
        LET once == Cancel(vms, imports, cin)
            twice == Cancel(once.vms, once.imports, cin)
        IN  /\ twice.vms = once.vms
            /\ twice.imports = once.imports

\* C13: in every state of the plan, a second call of begin(), of end() or of
\* Cancel() right after the first leaves the snapshot conditions, the VM
\* statuses with their pipelines and the set of imports as the first call
\* left them.
C13_Idempotent == BeginTwice /\ EndTwice /\ CancelTwice

C13_Witness ==
    /\ last.op = "end"
    /\ last.end = "cancel"
    /\ err = "nil"
    /\ Failed \in snapshot
    /\ \E i \in DOMAIN vms :
          /\ Failed \in vms[i].conds
          /\ vms[i].pipeline # <<>>
          /\ vms[i].ref \notin imports
    /\ StatusOf(end(snapshot, timed, vms, imports,
                    [initErr |-> FALSE, failAt |-> 0]))
          = << snapshot, vms, imports >>

(***************************************************************************)
(* updatePipeline on its own: the pipelines begin() builds, reconciled     *)
(* against any sequence of observed imports.                               *)
(***************************************************************************)
\* Percent-complete values an import or data volume reports.
Pcts == {0, 50, 100}

\* What one data volume of task t can show: not running yet, not bound,
\* running at some percentage, or ready with or without a Running
\* condition.
AnyDv(t) ==
    {[task |-> t, boundFalse |-> FALSE, running |-> FALSE, ready |-> FALSE, pct |-> 0],
     [task |-> t, boundFalse |-> TRUE, running |-> FALSE, ready |-> FALSE, pct |-> 0],
     [task |-> t, boundFalse |-> FALSE, running |-> FALSE, ready |-> TRUE, pct |-> 100],
     DvReady(t)}
    \cup {[task |-> t, boundFalse |-> FALSE, running |-> TRUE, ready |-> FALSE,
           pct |-> p] : p \in Pcts}

\* The import of a VM of n disks, as any reconcile can find it.
AnyImp(n) ==
    {[dvs |-> d, processing |-> c, procTrue |-> (c # ""), succeeded |-> s,
      pct |-> p, warm |-> FALSE, procTime |-> 0]
        : d \in {f \in [1..n -> UNION {AnyDv(t) : t \in 1..n}] :
                    \A t \in 1..n : f[t].task = t},
          c \in {"", "ConvertingGuest"},
          s \in {"none", "True", "False"},
          p \in Pcts}

\* Any list of data volumes, in any order, with duplicates and with
\* volumes of no task of the VM.
AnyDvList ==
    UNION {[1..n -> UNION {AnyDv(t) : t \in 1..2}] : n \in 0..MaxDvs}

VolumesImp(dvs) == [NoImp EXCEPT !.dvs = dvs]

\* The plan right after its first begin(): one VM without hooks, of one,
\* two or no disks.
ProgressInit ==
    /\ provider \in {VSphere, OVirt}
    /\ planSpec \in {<< [ref |-> r, hooks |-> {}] >> : r \in {"a", "b", "d"}}
    /\ cancelSet = {}
    /\ snapshot = {Executing}
    /\ timed = [started |-> TRUE, completed |-> FALSE]
    /\ vms = begin({}, [started |-> FALSE, completed |-> FALSE], <<>>,
                   planSpec, provider, [kind |-> "none", at |-> 0]).vms
    /\ imports = {planSpec[1].ref}
    /\ pc = "idle"
    /\ queue = <<>>
    /\ reQ = PollReQ
    /\ err = "nil"
    /\ nsnap = 0
    /\ vmsAtRun = <<>>
    /\ last = NoCall
    /\ observed = <<>>
    /\ predicate = {}
    /\ model = NoCluster
    /\ resource = EmptyCluster
    /\ inst = <<>>

\* One updatePipeline call on the VM, with the import as observed.
WatchImport ==
    /\ \E imp \in AnyImp(Disks(vms[1].ref)) :
          vms' = [vms EXCEPT ![1] = updatePipeline(vms[1], imp)]
    /\ last' = [NoCall EXCEPT !.op = "updatePipeline", !.idx = 1]
    /\ UNCHANGED << model, resource, predicate, inst, observed, provider, planSpec, cancelSet, snapshot, timed, imports,
                    pc, queue, reQ, err, nsnap, vmsAtRun >>

\* One updatePipeline call on the VM, the import listing any data volumes.
WatchVolumes ==
    /\ \E dvs \in AnyDvList :
          vms' = [vms EXCEPT ![1] = updatePipeline(vms[1], VolumesImp(dvs))]
    /\ last' = [NoCall EXCEPT !.op = "updatePipeline", !.idx = 1]
    /\ UNCHANGED << model, resource, predicate, inst, observed, provider, planSpec, cancelSet, snapshot, timed,
                    imports, pc, queue, reQ, err, nsnap, vmsAtRun >>

ProgressNext == WatchImport \/ WatchVolumes

ProgressSpec == ProgressInit /\ [][ProgressNext]_vars

\* The progress records C14 and C15 speak of: the tasks of DiskTransfer and
\* the ImageConversion step.
Bounded(t) ==
    /\ t.done <= t.total
    /\ (t.total > 0 /\ t.done = t.total) => t.completed

\* C14: after every updatePipeline call, with percent-complete in [0,1],
\* every DiskTransfer task and the ImageConversion step have
\* completed <= total, and are marked completed when completed = total > 0.
C14_ProgressBounded ==
    last.op = "updatePipeline" =>
        \A i \in DOMAIN vms : \A k \in DOMAIN vms[i].pipeline :
            LET s == vms[i].pipeline[k]
            IN  /\ s.name = DiskTransfer =>
                      \A t \in DOMAIN s.tasks : Bounded(s.tasks[t])
                /\ s.name = ImageConversion => Bounded(s)

\* Between two reconciles of the same pipeline no step and no task loses
\* progress.
ProgressKept ==
    \A i \in DOMAIN vms :
        (/\ i \in DOMAIN vms'
         /\ DOMAIN vms'[i].pipeline = DOMAIN vms[i].pipeline)
        => \A k \in DOMAIN vms[i].pipeline :
              /\ vms'[i].pipeline[k].done >= vms[i].pipeline[k].done
              /\ \A t \in DOMAIN vms[i].pipeline[k].tasks :
                    vms'[i].pipeline[k].tasks[t].done
                        >= vms[i].pipeline[k].tasks[t].done

\* C15: for every step and task of a pipeline that begin() has not rebuilt,
\* progress.completed never decreases from one reconcile to the next,
\* whatever the imports and data volumes show.
C15_ProgressMonotone == [][ProgressKept]_vars

(***************************************************************************)
(* updateWarmStatus on its own: a warm import reconciled against any       *)
(* sequence of Processing conditions.                                      *)
(***************************************************************************)
ProcessingReasons == {Pending, "CopyingStage", "CopyingPaused", "ConvertingGuest"}

\* The Processing condition a reconcile can find after those it has met:
\* none, the last one again, or a later transition to any reason.
ProcessingObs(seen) ==
    {[reason |-> "", time |-> 0]}
    \cup (IF seen = <<>> THEN {} ELSE {seen[Len(seen)]})
    \cup {[reason |-> r, time |-> t] :
            r \in ProcessingReasons,
            t \in {u \in 1..MaxTime : seen = <<>> \/ u > seen[Len(seen)].time}}

WarmImp(cnd) ==
    [NoImp EXCEPT !.warm = TRUE, !.processing = cnd.reason,
                  !.procTrue = (cnd.reason # ""), !.procTime = cnd.time]

\* The plan right after its first begin(): one VM, imported warm.
WarmInit ==
    /\ ProgressInit
    /\ planSpec = << [ref |-> "a", hooks |-> {}] >>

\* One updateVM call on the VM, its warm import showing cnd.
WatchWarmImport ==
    /\ \E cnd \in ProcessingObs(observed) :
          /\ vms' = [vms EXCEPT ![1] =
                        updateVM(vms[1], [DefaultIn EXCEPT !.imp = WarmImp(cnd)])]
          /\ observed' = IF cnd.reason = "" \/ (\E k \in DOMAIN observed : observed[k] = cnd)
                         THEN observed ELSE Append(observed, cnd)
          /\ last' = [NoCall EXCEPT !.op = "updateWarmStatus", !.idx = 1,
                                    !.how = cnd.reason]
    /\ UNCHANGED << model, resource, predicate, inst, provider, planSpec, cancelSet, snapshot,
                    timed, imports, pc, queue, reQ, err, nsnap, vmsAtRun >>

WarmSpec == WarmInit /\ [][WatchWarmImport]_vars

Precopies == vms[1].warm.precopies

Closed(list) == {k \in DOMAIN list : list[k].end # 0}

PausesObserved == {k \in DOMAIN observed : observed[k].reason = "CopyingPaused"}

OtherReasonKeepsList ==
    (/\ last'.op = "updateWarmStatus"
     /\ last'.how \notin {"CopyingStage", "CopyingPaused"})
    => vms'[1].warm.precopies = vms[1].warm.precopies

\* C16: for a warm import, after any sequence of updateWarmStatus calls, at
\* most one pre-copy is open and it is the last of the list; the number of
\* closed pre-copies is the number of distinct CopyingPaused transitions
\* observed; CopyingStage@1, CopyingPaused@2, CopyingStage@3,
\* CopyingPaused@4 yields [(1,2),(3,4)]; any other reason leaves the list
\* unchanged.
C16_WarmPrecopies ==
    /\ [](/\ \A k \in DOMAIN Precopies :
                Precopies[k].end = 0 => k = Len(Precopies)
          /\ Cardinality(Closed(Precopies)) = Cardinality(PausesObserved)
          /\ observed = << [reason |-> "CopyingStage", time |-> 1],
                           [reason |-> "CopyingPaused", time |-> 2],
                           [reason |-> "CopyingStage", time |-> 3],
                           [reason |-> "CopyingPaused", time |-> 4] >>
                => Precopies = << [start |-> 1, end |-> 2],
                                  [start |-> 3, end |-> 4] >>)
    /\ [][OtherReasonKeepsList]_vars

\* The plan controller calls nothing but Run; the user may cancel VMs.
RunOnlyNext ==
    \/ RunBegin
    \/ StepRunning
    \/ SchedulerFails
    \/ ScheduleNone
    \/ ScheduleNext
    \/ UserCancel

\* Run is called again for as long as it asks for it, and the cluster does
\* not fail every call.
RunOnlySpec ==
    /\ OneVMInit
    /\ [][RunOnlyNext]_vars
    /\ SF_vars(RunStarts)
    /\ SF_vars(StepReturnsNil)
    /\ SF_vars(EndEvaluated)

AllPhaseCompleted ==
    /\ vms # <<>>
    /\ \A i \in DOMAIN vms : vms[i].phase = Completed

RunFinalized ==
    /\ pc = "idle"
    /\ reQ = NoReQ
    /\ snapshot \cap TerminalConditions # {}
    /\ Executing \notin snapshot

\* C17: once every VM has phase Completed, by success, failure or
\* cancellation, the Run calls that follow, and no other call, lead to
\* end() stamping the terminal condition and Run returning NoReQ.
C17_RunFinalizes == AllPhaseCompleted ~> RunFinalized

\* What step does on vms[i] when EnsureImport fails with an error other
\* than ProviderNotReady.
EnsureErrorStep(i) ==
    step(vms[i], [DefaultIn EXCEPT !.ensure = "Error"], FALSE)

\* The transition has stepped vms[i] and recorded EnsureImport's error.
EnsureErrorRecorded(i) ==
    /\ last'.op = "step"
    /\ last'.idx = i
    /\ vms[i].phase \in {CreateImport, ImportCreated}
    /\ "EnsureImport" \notin vms[i].error
    /\ "EnsureImport" \in vms'[i].error

\* After that step the Run goes on: to the next running VM or to the
\* scheduler; and when the step was the scheduled one, to end().
RunGoesOn ==
    \A i \in DOMAIN vms :
        EnsureErrorRecorded(i) =>
            IF pc = "steps"
            THEN /\ queue' = Tail(queue)
                 /\ pc' = IF Tail(queue) = <<>> THEN "sched" ELSE "steps"
                 /\ err' = err
            ELSE /\ last'.end # ""
                 /\ err' \in {"nil", "Cancel"}

\* C18: when EnsureImport fails with an error other than ProviderNotReady,
\* step records the error on the VM and returns nil; the same Run then
\* steps the running VMs that follow, consults the scheduler and evaluates
\* end(), and does not return that error.
C18_EnsureErrorSwallowed ==
    /\ [](\A i \in DOMAIN vms :
            (pc # "idle" /\ vms[i].phase \in {CreateImport, ImportCreated}) =>
                /\ EnsureErrorStep(i).err = "nil"
                /\ EnsureErrorStep(i).how = "done"
                /\ "EnsureImport" \in EnsureErrorStep(i).vm.error)
    /\ [][RunGoesOn]_vars

C18_Witness ==
    /\ pc = "steps"
    /\ queue # <<>>
    /\ last.op = "step"
    /\ "EnsureImport" \in vms[last.idx].error
    /\ err = "nil"

\* The outcome of a step call that reached the end of the switch.
StepOutcome ==
    \A i \in DOMAIN vms :
        (Stepped(i) /\ last'.how = "done") =>
            LET before == vms[i].conds \cap {Succeeded, Failed}
                after == vms'[i].conds \cap {Succeeded, Failed}
            IN  IF vms'[i].error # {}
                THEN /\ vms'[i].phase = Completed
                     /\ after = before \cup {Failed}
                ELSE IF vms'[i].phase = Completed
                THEN after = before \cup {Succeeded}
                ELSE after = before

\* C19: after a step call that reaches the end of the switch, a VM with a
\* non-empty error list has phase Completed and Failed; a VM with no error
\* and phase Completed has Succeeded; in every other case the call adds
\* neither Succeeded nor Failed.
C19_StepOutcome == [][StepOutcome]_vars

C19_Witness ==
    /\ last.op = "step"
    /\ last.how = "done"
    /\ vms[last.idx].error # {}
    /\ vms[last.idx].phase = Completed
    /\ vms[last.idx].conds \cap {Succeeded, Failed} = {Failed}

NonFatalErrors == {"EnsureImport", "ImportNotFound"}

\* What step does on vms[i] when the import map has no import for the VM.
ImportMissingStep(i) == step(vms[i], [DefaultIn EXCEPT !.found = FALSE], FALSE)

\* A step call that records a non-fatal error leaves the VM in its phase
\* and without Failed.
NonFatalKeepsPhase ==
    \A i \in DOMAIN vms :
        (/\ Stepped(i)
         /\ vms[i].phase \in {CreateImport, ImportCreated}
         /\ (vms'[i].error \ vms[i].error) \cap NonFatalErrors # {})
        => /\ vms'[i].phase = vms[i].phase
           /\ Failed \in vms'[i].conds => Failed \in vms[i].conds

\* C20: a non-ProviderNotReady EnsureImport error, or an import missing
\* from the import map in updateVM, is recorded on the VM's error list, and
\* the VM stays in its phase, CreateImport or ImportCreated, without
\* moving to Completed or getting Failed from that error.
C20_NonFatalKeepsPhase ==
    /\ [](\A i \in DOMAIN vms :
            /\ (pc # "idle" /\ vms[i].phase \in {CreateImport, ImportCreated})
                  => "EnsureImport" \in EnsureErrorStep(i).vm.error
            /\ (pc # "idle" /\ vms[i].phase = ImportCreated)
                  => "ImportNotFound" \in ImportMissingStep(i).vm.error)
    /\ [][NonFatalKeepsPhase]_vars

\* The step on which a VM in ImportCreated waits: ImageConversion when the
\* pipeline has one, else DiskTransfer; 0 when it has neither.
AwaitedStep(vm) ==
    IF FindStep(vm, ImageConversion) # 0 THEN FindStep(vm, ImageConversion)
    ELSE FindStep(vm, DiskTransfer)

\* A step call on a VM in ImportCreated.
LeavesImportCreated ==
    \A i \in DOMAIN vms :
        (Stepped(i) /\ vms[i].phase = ImportCreated) =>
            LET after == vms'[i]
                k == AwaitedStep(after)
                awaited == k # 0 /\ after.pipeline[k].completed
            IN  IF last'.how = "canceled" \/ after.error # {}
                THEN after.phase = Completed
                ELSE IF last'.how = "done" /\ awaited
                THEN after.phase = Successor(vms[i].hooks, ImportCreated)
                ELSE after.phase = ImportCreated

\* C21: a step moves a VM out of ImportCreated only when its ImageConversion
\* step, or its DiskTransfer step if it has no ImageConversion, is marked
\* completed (to the next phase without error, to Completed with one), or
\* when the VM is canceled or has an error; otherwise it stays.
C21_LeavesImportCreated == [][LeavesImportCreated]_vars

C21_Witness ==
    /\ last.op = "step"
    /\ last.how = "done"
    /\ provider = VSphere
    /\ vms[last.idx].phase = ImportCreated
    /\ vms[last.idx].error = {}
    /\ vms[last.idx].pipeline[FindStep(vms[last.idx], DiskTransfer)].completed
    /\ ~vms[last.idx].pipeline[FindStep(vms[last.idx], ImageConversion)].completed

\* The DiskTransfer step of vms[1] after updatePipeline has observed dvs.
TransferAfter(dvs) ==
    updatePipeline(vms[1], VolumesImp(dvs)).pipeline[FindStep(vms[1], DiskTransfer)]

\* C22: for every observed data volume that has the Ready condition and
\* whose identifier is that of a task of a DiskTransfer step not yet marked
\* completed, the task has completed = total and is marked completed after
\* updatePipeline, whether or not the volume has a Running condition.
C22_ReadyCompletesTask ==
    (/\ FindStep(vms[1], DiskTransfer) # 0
     /\ ~vms[1].pipeline[FindStep(vms[1], DiskTransfer)].completed)
    => \A dvs \in AnyDvList : \A k \in DOMAIN dvs :
          (dvs[k].ready /\ dvs[k].task \in DOMAIN TransferAfter(dvs).tasks)
          => /\ TransferAfter(dvs).tasks[dvs[k].task].completed
             /\ TransferAfter(dvs).tasks[dvs[k].task].done
                    = TransferAfter(dvs).tasks[dvs[k].task].total

\* The phase C23 gives the DiskTransfer step of vms[1] after a pass over dvs.
AggregatePhase(dvs) ==
    LET before == vms[1].pipeline[FindStep(vms[1], DiskTransfer)]
        after == TransferAfter(dvs)
        found(k) == dvs[k].task \in DOMAIN before.tasks
    IN  IF \A t \in DOMAIN after.tasks : after.tasks[t].completed
        THEN Completed
        ELSE IF \E k \in DOMAIN dvs : found(k) /\ dvs[k].boundFalse
        THEN Blocked
        ELSE IF \E k \in DOMAIN dvs :
                    found(k) /\ ~dvs[k].boundFalse /\ dvs[k].running
        THEN Running
        ELSE before.phase

\* C23: after updatePipeline has processed a DiskTransfer step, for any list
\* of data volumes, the step's phase is Completed if and only if every task
\* is marked completed; else Blocked if a task was found blocked in this
\* pass; else Running if a task was found running; else unchanged.
C23_TransferPhase ==
    (/\ FindStep(vms[1], DiskTransfer) # 0
     /\ ~vms[1].pipeline[FindStep(vms[1], DiskTransfer)].completed)
    => \A dvs \in AnyDvList : TransferAfter(dvs).phase = AggregatePhase(dvs)

\* What step does on vms[i] when the import shows imp.
StepOn(i, imp) == step(vms[i], [DefaultIn EXCEPT !.imp = imp], FALSE)

\* The imports with a Succeeded condition a step on vm can observe.
SucceededObs(vm) == {imp \in ImpObs(vm) : imp.succeeded # "none"}

\* vms[i] is in ImportCreated with an ImageConversion step not completed.
AwaitsConversion(i) ==
    /\ pc # "idle"
    /\ vms[i].phase = ImportCreated
    /\ FindStep(vms[i], ImageConversion) # 0
    /\ ~vms[i].pipeline[FindStep(vms[i], ImageConversion)].completed

\* C24: when the import has a Succeeded condition and the VM is in
\* ImportCreated with ImageConversion not completed, the step call marks
\* ImageConversion completed with completed = total; with a status other
\* than True the message is a step error and a VM error, the step phase is
\* the reason, and the VM ends in Completed with Failed and without
\* Succeeded; with status True the step phase is Completed and no error is
\* added.
C24_SucceededFinalizes ==
    \A i \in DOMAIN vms : AwaitsConversion(i) =>
        \A imp \in SucceededObs(vms[i]) :
            LET k == FindStep(vms[i], ImageConversion)
                vm == StepOn(i, imp).vm
                s == vm.pipeline[k]
            IN  /\ StepOn(i, imp).how = "done"
                /\ s.completed
                /\ s.done = s.total
                /\ IF imp.succeeded = "True"
                   THEN /\ s.phase = Completed
                        /\ s.error = vms[i].pipeline[k].error
                        /\ vm.error = vms[i].error
                   ELSE /\ "ImportFailed: message" \in s.error
                        /\ "ImportFailed: message" \in vm.error
                        /\ s.phase = "ImportFailed"
                        /\ vm.phase = Completed
                        /\ Failed \in vm.conds
                        /\ Succeeded \notin vm.conds

\* A Run whose begin() found a snapshot without conditions and returned nil.
BeginReconciles ==
    (/\ pc = "idle"
     /\ pc' # "idle"
     /\ snapshot \cap ({Executing} \cup TerminalConditions) = {})
    => /\ Len(vms') = Len(planSpec)
       /\ \A k \in DOMAIN planSpec :
            LET j == FindVM(vms, planSpec[k].ref)
                status == vms'[k]
            IN  /\ status.ref = planSpec[k].ref
                /\ IF j = 0
                   THEN status.phase = Started
                   ELSE IF /\ vms[j].phase = Completed
                           /\ vms[j].conds \cap {Canceled, Failed} = {}
                   THEN status = vms[j]
                   ELSE /\ status.phase = Started
                        /\ status.pipeline
                              = buildPipeline(planSpec[k].hooks, provider,
                                              planSpec[k].ref)
                        /\ status.error = {}
                        /\ status.warm = NoWarm
                        /\ ~status.started
                        /\ ~status.completed
                        /\ status.conds \cap TerminalConditions = {}

\* C25: a begin() that runs on a snapshot without Executing, Succeeded,
\* Failed or Canceled and returns nil gives every plan VM without status a
\* fresh one in Started, keeps every status in Completed without Canceled
\* and Failed as it is, and resets every other status to Started with a
\* rebuilt pipeline, no error, no warm state, no marks and none of
\* Canceled, Failed and Succeeded; the list is in the order of the plan.
C25_BeginReconciles == [][BeginReconciles]_vars

(***************************************************************************)
(* Two Migration instances, each for its own plan of one VM, run begin()   *)
(* and step() with their statements interleaved.  `itinerary` is a         *)
(* variable of the package: both instances write its Predicate             *)
(* (buildPipeline, step) and read it (itinerary.First, itinerary.Next).    *)
(* In the specifications of a single instance every read follows the      *)
(* write of the same call, so next and buildPipeline are given the hooks   *)
(* directly and predicate is left alone.                                   *)
(*   inst[p] = [plan, vm, at]: the plan VM, its status, and where the      *)
(*   instance is: "new", "building", "ready", "stepping".                  *)
(***************************************************************************)
Instances == {1, 2}

HookBindings == {{}, {PreHook, PostHook}}

\* What the collaborators answer to a step when nothing fails.
CleanInputs(vm) ==
    {in \in StepInputs(vm) :
        /\ in.ensure = "ok"
        /\ in.hook \in {"running", "succeeded"}
        /\ ~in.mapErr
        /\ in.found
        /\ in.imp.succeeded # "False"}

ConcurrentInit ==
    /\ provider \in {VSphere, OVirt}
    /\ planSpec = <<>>
    /\ cancelSet = {}
    /\ snapshot = {}
    /\ timed = [started |-> FALSE, completed |-> FALSE]
    /\ vms = <<>>
    /\ imports = {}
    /\ pc = "idle"
    /\ queue = <<>>
    /\ reQ = PollReQ
    /\ err = "nil"
    /\ nsnap = 0
    /\ vmsAtRun = <<>>
    /\ last = NoCall
    /\ observed = <<>>
    /\ predicate = {}
    /\ model = NoCluster
    /\ resource = EmptyCluster
    /\ \E h1, h2 \in HookBindings :
          inst = << [plan |-> [ref |-> "a", hooks |-> h1],
                     vm |-> NewStatus([ref |-> "a", hooks |-> h1]),
                     at |-> "new"],
                    [plan |-> [ref |-> "c", hooks |-> h2],
                     vm |-> NewStatus([ref |-> "c", hooks |-> h2]),
                     at |-> "new"] >>

OnePlanVars ==
    << provider, planSpec, cancelSet, snapshot, timed, vms, imports, pc, queue,
       reQ, err, nsnap, vmsAtRun, last, observed, model, resource >>

\* buildPipeline, first statement: "itinerary.Predicate = &Predicate{vm: vm}".
BuildSetsPredicate ==
    \E p \in Instances :
        /\ inst[p].at = "new"
        /\ predicate' = inst[p].plan.hooks
        /\ inst' = [inst EXCEPT ![p].at = "building"]
        /\ UNCHANGED OnePlanVars

\* buildPipeline, the walk with itinerary.First and itinerary.Next, and the
\* reset of the status in begin().
BuildWalks ==
    \E p \in Instances :
        /\ inst[p].at = "building"
        /\ inst' = [inst EXCEPT
                      ![p].vm = [ResetStatus(@,
                                    [inst[p].plan EXCEPT !.hooks = predicate],
                                    provider)
                                 EXCEPT !.hooks = inst[p].plan.hooks],
                      ![p].at = "ready"]
        /\ UNCHANGED << predicate, OnePlanVars >>

\* step, first statement: "itinerary.Predicate = &Predicate{vm: &vm.VM}".
StepSetsPredicate ==
    \E p \in Instances :
        /\ inst[p].at = "ready"
        /\ ~inst[p].vm.completed
        /\ predicate' = inst[p].vm.hooks
        /\ inst' = [inst EXCEPT ![p].at = "stepping"]
        /\ UNCHANGED OnePlanVars

\* step, the switch and what follows it; r.next reads itinerary.Predicate.
StepSwitches ==
    \E p \in Instances :
        /\ inst[p].at = "stepping"
        /\ \E in \in CleanInputs(inst[p].vm) :
              inst' = [inst EXCEPT
                         ![p].vm = [step([@ EXCEPT !.hooks = predicate], in,
                                         FALSE).vm
                                    EXCEPT !.hooks = inst[p].vm.hooks],
                         ![p].at = "ready"]
        /\ UNCHANGED << predicate, OnePlanVars >>

ConcurrentNext ==
    \/ BuildSetsPredicate
    \/ BuildWalks
    \/ StepSetsPredicate
    \/ StepSwitches

ConcurrentSpec == ConcurrentInit /\ [][ConcurrentNext]_vars

\* Every pipeline built and every phase computed for the VM of an instance
\* is the one its own hooks give.
OwnHooksDecide ==
    \A p \in DOMAIN inst :
        /\ (inst[p].at = "building" /\ inst'[p].at = "ready")
              => inst'[p].vm.pipeline
                    = buildPipeline(inst[p].plan.hooks, provider, inst[p].plan.ref)
        /\ (inst[p].at = "stepping" /\ inst'[p].at = "ready")
              => \E in \in CleanInputs(inst[p].vm) :
                    inst'[p].vm.phase = step(inst[p].vm, in, FALSE).vm.phase

\* C26: when two Migration instances of different plans interleave their
\* steps, the pipeline built for a VM in begin() and the next phase computed
\* for it in step() follow from the hooks of that VM, never from the hook
\* predicate of the other instance's VM.
C26_NoSharedPredicate == [][OwnHooksDecide]_vars

\* C27: after a begin() that failed once Executing was stamped, a later Run
\* reconciles the VM set before anything is finalized: end() never stamps a
\* terminal condition while a VM of the plan spec has no VM status, and a
\* plan with VMs is not finalized as Canceled over an empty or partial
\* status list.
C27_NoFinalizeBeforeReconcile ==
    (last.end \in {"completed", "cancel"}) =>
        /\ \A k \in DOMAIN planSpec : FindVM(vms, planSpec[k].ref) # 0
        /\ (Canceled \in snapshot /\ planSpec # <<>>) =>
              \E i \in DOMAIN vms : Canceled \in vms[i].conds

\* A step call that gives the VM Succeeded finds its whole pipeline done.
SucceededWhenAllDone ==
    \A i \in DOMAIN vms :
        (/\ Stepped(i)
         /\ Succeeded \notin vms[i].conds
         /\ Succeeded \in vms'[i].conds)
        => \A k \in DOMAIN vms'[i].pipeline :
              /\ vms'[i].pipeline[k].completed
              /\ vms'[i].pipeline[k].error = {}

\* C28: a VM gets Succeeded only when every step of its pipeline is marked
\* completed without error; a vSphere VM whose import shows Succeeded=True
\* while a DiskTransfer task has not been seen Ready does not become
\* Succeeded with DiskTransfer not completed.
C28_SucceededWhenAllDone == [][SucceededWhenAllDone]_vars

(***************************************************************************)
(* The cluster handler: a GET of one cluster builds the REST resource from *)
(* the model found in the inventory.                                       *)
(***************************************************************************)
ClusterInit ==
    /\ provider = VSphere
    /\ planSpec = <<>>
    /\ cancelSet = {}
    /\ snapshot = {}
    /\ timed = [started |-> FALSE, completed |-> FALSE]
    /\ vms = <<>>
    /\ imports = {}
    /\ pc = "idle"
    /\ queue = <<>>
    /\ reQ = PollReQ
    /\ err = "nil"
    /\ nsnap = 0
    /\ vmsAtRun = <<>>
    /\ last = NoCall
    /\ observed = <<>>
    /\ predicate = {}
    /\ inst = <<>>
    /\ model \in ModelClusters
    /\ resource = EmptyCluster

\* ClusterHandler.Get: "r := &Cluster{}; r.With(m)".
ClusterGet ==
    /\ last.op = "none"
    /\ resource' = With(EmptyCluster, model)
    /\ last' = [NoCall EXCEPT !.op = "With"]
    /\ UNCHANGED << model, predicate, inst, observed, provider, planSpec,
                    cancelSet, snapshot, timed, vms, imports, pc, queue, reQ,
                    err, nsnap, vmsAtRun >>

ClusterSpec == ClusterInit /\ [][ClusterGet]_vars

\* C29: the REST Cluster resource built by Cluster.With(m) has each list
\* field equal to the model's field of the same name: networks, datastores,
\* hosts, dasVms and drsVms, also when DasVms and DrsVms differ.
C29_WithCopiesLists ==
    (last.op = "With") =>
        /\ resource.networks = model.networks
        /\ resource.datastores = model.datastores
        /\ resource.hosts = model.hosts
        /\ resource.dasVms = model.dasVms
        /\ resource.drsVms = model.drsVms

====
